---------------------------- MODULE Spec2Model ----------------------------
(***************************************************************************)
(* A model of reflspeckit's cube pipeline: the Spec3D orchestrator (the    *)
(* processing flag and the cube it owns), the piecewise-linear             *)
(* interpolators, the double-line continuum remover, the outlier detector  *)
(* with the box filter it is built on, and the absorption-feature band     *)
(* center.                                                                 *)
(*                                                                         *)
(* Numbers are exact rationals extended with +inf, -inf and NaN, so the    *)
(* model follows the arithmetic the code asks for and not its rounding.    *)
(* Every array operation of the code broadcasts over the two spatial axes  *)
(* of a cube, so the numeric operators are written for the spectrum of one *)
(* pixel.                                                                  *)
(***************************************************************************)
EXTENDS Integers, Sequences, FiniteSets, TLC

VARIABLES
    flag,        \* Spec3D._processing_flag
    cube,        \* Spec3D.cube, as the operations applied to the constructor's array
    wvl_unit,    \* Spec3D.wavelength.unit
    call,        \* the last method call on the instance, with the state it found
    feature,     \* the AbsorptionFeature3D objects the last call returned (0 or 1)
    ncalls,      \* number of calls made so far
    args,        \* inputs of the numeric function under study
    ret          \* what the numeric function returned

vars == <<flag, cube, wvl_unit, call, feature, ncalls, args, ret>>

orchVars == <<flag, cube, wvl_unit, call, feature, ncalls>>

-----------------------------------------------------------------------------
(* Bounds of the model.                                                    *)

MaxCalls == 4

-----------------------------------------------------------------------------
(* Extended rational arithmetic: <<n, d>> with d >= 0 in lowest terms;     *)
(* d = 0 gives <<1, 0>> = +inf, <<-1, 0>> = -inf, <<0, 0>> = NaN.          *)

Abs(i) == IF i < 0 THEN -i ELSE i

Sign(i) == IF i < 0 THEN -1 ELSE IF i > 0 THEN 1 ELSE 0

RECURSIVE Gcd(_, _)
Gcd(a, b) == IF b = 0 THEN a ELSE Gcd(b, a % b)

Norm(n, d) ==
    IF d = 0 THEN <<Sign(n), 0>>
    ELSE LET g == Gcd(Abs(n), Abs(d))
         IN  <<(Sign(d) * n) \div g, Abs(d) \div g>>

R(i) == <<i, 1>>

NaN == <<0, 0>>

IsNaN(a) == a = NaN

IsFinite(a) == a[2] # 0

RAdd(a, b) ==
    IF IsNaN(a) \/ IsNaN(b) THEN NaN
    ELSE IF a[2] = 0 /\ b[2] = 0 THEN (IF a[1] = b[1] THEN a ELSE NaN)
    ELSE Norm(a[1] * b[2] + b[1] * a[2], a[2] * b[2])

RNeg(a) == <<-a[1], a[2]>>

RSub(a, b) == RAdd(a, RNeg(b))

RMul(a, b) == Norm(a[1] * b[1], a[2] * b[2])

RRecip(a) == Norm(a[2] * (IF a[1] < 0 THEN -1 ELSE 1), Abs(a[1]))

RDiv(a, b) ==
    IF IsNaN(a) \/ IsNaN(b) THEN NaN
    ELSE IF b[1] = 0 THEN <<Sign(a[1]), 0>>
    ELSE RMul(a, RRecip(b))

RLt(a, b) ==
    /\ ~IsNaN(a)
    /\ ~IsNaN(b)
    /\ IF a[2] = 0 /\ b[2] = 0 THEN a[1] < b[1]
       ELSE IF a[2] = 0 THEN a[1] < 0
       ELSE IF b[2] = 0 THEN b[1] > 0
       ELSE a[1] * b[2] < b[1] * a[2]

RGt(a, b) == RLt(b, a)

RLe(a, b) == ~IsNaN(a) /\ ~IsNaN(b) /\ ~RLt(b, a)

RGe(a, b) == RLe(b, a)

RAbs(a) == <<Abs(a[1]), a[2]>>

-----------------------------------------------------------------------------
(* Spec3D: the orchestrator.                                               *)

ProcessingFlag == <<"RAW", "OUTLIERS_REMOVED", "FILTERED", "CONTINUUM_REMOVED">>

Flags == {ProcessingFlag[i] : i \in 1..Len(ProcessingFlag)}

\* The position of a flag in the enumeration (auto() numbers from 1).
FlagValue(f) == CHOOSE i \in 1..Len(ProcessingFlag) : ProcessingFlag[i] = f

WvlUnit == {"nm", "um", "m"}

\* The stage functions, as entries of the cube's history.  The argument of
\* remove_outliers is the threshold in tenths.
RemoveOutliersOp(threshold) == [op |-> "remove_outliers", arg |-> threshold]

BoxFilterOp(window_size) == [op |-> "box_filter_cube", arg |-> window_size]

DoubleLineOp == [op |-> "double_line", arg |-> 0]

\* sigma_threshold: float = 1.5, in tenths.
DefaultSigma == 15

\* self.noise_reduction("box_filter", 7)
DefaultFilterWidth == 7

\* Argument values the calls are tried with.
Thresholds == {10, DefaultSigma}

FilterWidths == {5, DefaultFilterWidth}

FilterMethods == {"box_filter", "median_filter"}

ContinuumMethods == {"double_line", "single_line"}

\* A state of the instance: the fields the stage methods read and write.
Self == [flag |-> flag, cube |-> cube]

outlier_removal(self, sigma_threshold) ==
    [self EXCEPT !.cube = Append(@, RemoveOutliersOp(sigma_threshold)),
                 !.flag = "OUTLIERS_REMOVED"]

\* noise_reduction without the automatic outlier removal.
noise_reduction_no_outlier_stage(self, method, filter_width) ==
    IF self.flag = "FILTERED" THEN self
    ELSE LET s2 == IF method = "box_filter"
                   THEN [self EXCEPT !.cube = Append(@, BoxFilterOp(filter_width))]
                   ELSE self
         IN  [s2 EXCEPT !.flag = "FILTERED"]

\* noise_reduction without the early return at FILTERED.
noise_reduction_no_short_circuit(self, method, filter_width) ==
    LET s1 == IF self.flag # "OUTLIERS_REMOVED"
              THEN outlier_removal(self, DefaultSigma)
              ELSE self
        s2 == IF method = "box_filter"
              THEN [s1 EXCEPT !.cube = Append(@, BoxFilterOp(filter_width))]
              ELSE s1
    IN  [s2 EXCEPT !.flag = "FILTERED"]

noise_reduction(self, method, filter_width) ==
    IF self.flag = "FILTERED" THEN self
    ELSE LET s1 == IF self.flag # "OUTLIERS_REMOVED"
                   THEN outlier_removal(self, DefaultSigma)
                   ELSE self
             s2 == IF method = "box_filter"
                   THEN [s1 EXCEPT !.cube = Append(@, BoxFilterOp(filter_width))]
                   ELSE s1
         IN  [s2 EXCEPT !.flag = "FILTERED"]

continuum_removal(self, method) ==
    IF self.flag = "CONTINUUM_REMOVED" THEN self
    ELSE LET s1 == IF self.flag # "FILTERED"
                   THEN noise_reduction(self, "box_filter", DefaultFilterWidth)
                   ELSE self
             s2 == IF method = "double_line"
                   THEN [s1 EXCEPT !.cube = Append(@, DoubleLineOp)]
                   ELSE s1
         IN  [s2 EXCEPT !.flag = "CONTINUUM_REMOVED"]

\* fit_absorption that runs the missing stages instead of raising.
fit_absorption_auto_promote(self, wavelength_unit, unit) ==
    LET s == continuum_removal(self, "double_line")
    IN  IF unit # wavelength_unit
        THEN [outcome |-> "WavelengthUnitError", feature |-> <<>>, self |-> s]
        ELSE [outcome |-> "returned", feature |-> <<[spec |-> s.cube]>>,
              self |-> s]

\* fit_absorption: the exception it raises, or "returned" with the feature
\* built on the cube; self is the instance as the call leaves it.
fit_absorption(self, wavelength_unit, unit) ==
    IF self.flag # "CONTINUUM_REMOVED"
    THEN [outcome |-> "ValueError", feature |-> <<>>, self |-> self]
    ELSE IF unit # wavelength_unit
    THEN [outcome |-> "WavelengthUnitError", feature |-> <<>>, self |-> self]
    ELSE [outcome |-> "returned", feature |-> <<[spec |-> self.cube]>>,
          self |-> self]

CallRecord(name, method, outcome) ==
    [name |-> name, method |-> method, outcome |-> outcome,
     pre_flag |-> flag, pre_cube |-> cube]

Spec3DInit ==
    /\ flag = "RAW"
    /\ cube = <<>>
    /\ wvl_unit = "nm"
    /\ call = [name |-> "__init__", method |-> "", outcome |-> "returned",
               pre_flag |-> "RAW", pre_cube |-> <<>>]
    /\ feature = <<>>
    /\ ncalls = 0

Init ==
    /\ Spec3DInit
    /\ args = <<>>
    /\ ret = <<>>

OutlierRemoval ==
    /\ ncalls < MaxCalls
    /\ \E t \in Thresholds :
          LET s == outlier_removal(Self, t)
          IN  /\ flag' = s.flag
              /\ cube' = s.cube
    /\ call' = CallRecord("outlier_removal", "", "returned")
    /\ feature' = <<>>
    /\ ncalls' = ncalls + 1
    /\ UNCHANGED <<wvl_unit, args, ret>>

NoiseReductionCall(methods) ==
    /\ ncalls < MaxCalls
    /\ \E method \in methods, w \in FilterWidths :
          LET s == noise_reduction(Self, method, w)
          IN  /\ flag' = s.flag
              /\ cube' = s.cube
              /\ call' = CallRecord("noise_reduction", method, "returned")
    /\ feature' = <<>>
    /\ ncalls' = ncalls + 1
    /\ UNCHANGED <<wvl_unit, args, ret>>

ContinuumRemovalCall(methods) ==
    /\ ncalls < MaxCalls
    /\ \E method \in methods :
          LET s == continuum_removal(Self, method)
          IN  /\ flag' = s.flag
              /\ cube' = s.cube
              /\ call' = CallRecord("continuum_removal", method, "returned")
    /\ feature' = <<>>
    /\ ncalls' = ncalls + 1
    /\ UNCHANGED <<wvl_unit, args, ret>>

NoiseReduction == NoiseReductionCall(FilterMethods)

ContinuumRemoval == ContinuumRemovalCall(ContinuumMethods)

FitAbsorption ==
    /\ ncalls < MaxCalls
    /\ \E unit \in WvlUnit :
          LET r == fit_absorption(Self, wvl_unit, unit)
          IN  /\ flag' = r.self.flag
              /\ cube' = r.self.cube
              /\ call' = CallRecord("fit_absorption", unit, r.outcome)
              /\ feature' = r.feature
    /\ ncalls' = ncalls + 1
    /\ UNCHANGED <<wvl_unit, args, ret>>

Next ==
    \/ OutlierRemoval
    \/ NoiseReduction
    \/ ContinuumRemoval
    \/ FitAbsorption

Spec == Init /\ [][Next]_vars

\* The calls made with the methods the dispatch recognises.
NoiseReductionBoxFilter == NoiseReductionCall({"box_filter"})

ContinuumRemovalDoubleLine == ContinuumRemovalCall({"double_line"})

NextKnownMethods ==
    \/ OutlierRemoval
    \/ NoiseReductionBoxFilter
    \/ ContinuumRemovalDoubleLine
    \/ FitAbsorption

SpecKnownMethods == Init /\ [][NextKnownMethods]_vars

\* Spec3D(spec_arr, wvl_arr, unit) for each unit the caller may declare:
\* __init__ builds Wavelength(wvl_arr, "nm") whatever unit is.
DeclaredUnitInit ==
    /\ Spec3DInit
    /\ \E unit \in WvlUnit : args = [unit |-> unit]
    /\ ret = <<>>

SpecDeclaredUnit == DeclaredUnitInit /\ [][Next]_vars

\* C25: the unit declared to the constructor is the unit tag of the
\* instance's Wavelength, the one continuum removal rescales by and
\* fit_absorption compares the caller's unit against.
C25_DeclaredUnitCarried == wvl_unit = args.unit

-----------------------------------------------------------------------------
(* The piecewise-linear interpolators: CubeInterpolator (shared and        *)
(* per-pixel tie points) and the 1-D Interpolator, for one pixel.          *)

MaxX == 3

MaxY == 2

\* Strictly increasing tie x-values (three, as double_line passes).
TieXs == {<<R(a), R(b), R(c)>> : a, b, c \in 0..MaxX} 

IncreasingTieXs == {x \in TieXs : RLt(x[1], x[2]) /\ RLt(x[2], x[3])}

TieYs == {<<R(a), R(b), R(c)>> : a, b, c \in 0..MaxY}

\* Query vectors: two queries in any order, from below the first tie point
\* to above the last.
QueryVectors == {<<R(a), R(b)>> : a, b \in (-1)..(MaxX + 1)}

\* A line with the slope of the segment that misses its first end point.
SegmentLine_wrong_intercept(x1, y1, x2, y2) ==
    LET m == RDiv(RSub(y2, y1), RSub(x2, x1))
    IN  [m |-> m, b |-> RSub(y1, RMul(m, x2))]

\* m = (y2 - y1) / (x2 - x1); b = y1 - m * x1
SegmentLine(x1, y1, x2, y2) ==
    LET m == RDiv(RSub(y2, y1), RSub(x2, x1))
    IN  [m |-> m, b |-> RSub(y1, RMul(m, x1))]

\* m * x + b
EvalLine(f, x) == RAdd(RMul(f.m, x), f.b)

\* funclist: one line per segment, the first and the last one repeated for
\* the queries below and above the tie points.
FuncList(xpts, ypts) ==
    LET nseg == Len(xpts) - 1
        seg == [n \in 1..nseg |->
                   SegmentLine(xpts[n], ypts[n], xpts[n + 1], ypts[n + 1])]
    IN  <<seg[1]>> \o seg \o <<seg[nseg]>>

\* condlist with the last segment right-open like the others.
CondList_all_half_open(xpts, x) ==
    LET nseg == Len(xpts) - 1
    IN  [k \in 1..(nseg + 2) |->
            IF k = 1 THEN RLt(x, xpts[1])
            ELSE IF k = nseg + 2 THEN RGt(x, xpts[nseg + 1])
            ELSE RGe(x, xpts[k - 1]) /\ RLt(x, xpts[k])]

\* condlist for one query: below the first tie point, the segments
\* (left-closed, right-open but for the last one, closed), above the last.
CondList(xpts, x) ==
    LET nseg == Len(xpts) - 1
    IN  [k \in 1..(nseg + 2) |->
            IF k = 1 THEN RLt(x, xpts[1])
            ELSE IF k = nseg + 2 THEN RGt(x, xpts[nseg + 1])
            ELSE IF k - 1 = nseg
                 THEN RGe(x, xpts[k - 1]) /\ RLe(x, xpts[k])
                 ELSE RGe(x, xpts[k - 1]) /\ RLt(x, xpts[k])]

\* for cnd, fnc in zip(condlist, funclist): result[cnd] = fnc(xvals[cnd]),
\* on a result filled with NaN: the entry of one query after pairs k..end.
RECURSIVE MaskedWrites(_, _, _, _, _)
MaskedWrites(k, condlist, funclist, x, result) ==
    IF k > Len(condlist) THEN result
    ELSE MaskedWrites(k + 1, condlist, funclist, x,
                      IF condlist[k] THEN EvalLine(funclist[k], x) ELSE result)

linear_constX(xpts, ypts, xvals) ==
    LET funclist == FuncList(xpts, ypts) \o <<>>
    IN  [i \in 1..Len(xvals) |->
            MaskedWrites(1, CondList(xpts, xvals[i]) \o <<>>, funclist,
                         xvals[i], NaN)] \o <<>>

\* Interpolator.linear of spec1D: the same construction on 1-D tie points.
Interpolator_linear(xpts, ypts, xvals) ==
    LET funclist == FuncList(xpts, ypts) \o <<>>
    IN  [i \in 1..Len(xvals) |->
            MaskedWrites(1, CondList(xpts, xvals[i]) \o <<>>, funclist,
                         xvals[i], NaN)] \o <<>>

\* slope_arr and intcp_arr of _linear_varX: one entry per segment and the
\* last one repeated.
EqnArr(xpts, ypts) ==
    LET M == Len(xpts)
    IN  [n \in 1..M |->
            IF n < M
            THEN SegmentLine(xpts[n], ypts[n], xpts[n + 1], ypts[n + 1])
            ELSE SegmentLine(xpts[M - 1], ypts[M - 1], xpts[M], ypts[M])] \o <<>>

\* for j in range(xpts.shape[-1]): where xvals[n] > xpts[j] the temporaries
\* take the entry j.  slope_arr_temp = slope_arr[:, :, 0] is a view, so the
\* write lands in entry 0 of slope_arr (and of intcp_arr) itself.
RECURSIVE SelectSegment(_, _, _, _)
SelectSegment(j, eqn, xpts, x) ==
    IF j > Len(xpts) THEN eqn
    ELSE SelectSegment(j + 1,
                       IF RGt(x, xpts[j]) THEN [eqn EXCEPT ![1] = eqn[j]] ELSE eqn,
                       xpts, x)

\* for n in range(xvals.size): the arrays after queries n..end were
\* processed, and the (slope, intercept) pairs copied into eqn_arr.
RECURSIVE QueryLoop(_, _, _, _, _)
QueryLoop(n, eqn, xpts, xvals, eqn_arr) ==
    IF n > Len(xvals) THEN [eqn |-> eqn, eqn_arr |-> eqn_arr]
    ELSE LET e == SelectSegment(1, eqn, xpts, xvals[n])
         IN  QueryLoop(n + 1, e, xpts, xvals, Append(eqn_arr, e[1]))

linear_varX(xpts, ypts, xvals) ==
    LET q == QueryLoop(1, EqnArr(xpts, ypts), xpts, xvals, <<>>)
    IN  [n \in 1..Len(xvals) |-> EvalLine(q.eqn_arr[n], xvals[n])] \o <<>>

\* The per-segment slopes and intercepts as the call leaves them.
linear_varX_eqn_after(xpts, ypts, xvals) ==
    QueryLoop(1, EqnArr(xpts, ypts), xpts, xvals, <<>>).eqn

NoCall == [fn |-> "", val |-> <<>>]

InterpInit ==
    /\ Spec3DInit
    /\ args \in [xpts : IncreasingTieXs, ypts : TieYs, xvals : QueryVectors]
    /\ ret = NoCall

LinearConstX ==
    /\ ret = NoCall
    /\ ret' = [fn |-> "_linear_constX",
               val |-> linear_constX(args.xpts, args.ypts, args.xvals)]
    /\ UNCHANGED <<orchVars, args>>

LinearVarX ==
    /\ ret = NoCall
    /\ ret' = [fn |-> "_linear_varX",
               val |-> linear_varX(args.xpts, args.ypts, args.xvals)]
    /\ UNCHANGED <<orchVars, args>>

InterpolatorLinear ==
    /\ ret = NoCall
    /\ ret' = [fn |-> "Interpolator.linear",
               val |-> Interpolator_linear(args.xpts, args.ypts, args.xvals)]
    /\ UNCHANGED <<orchVars, args>>

InterpNext ==
    \/ LinearConstX
    \/ LinearVarX
    \/ InterpolatorLinear

SpecInterp == InterpInit /\ [][InterpNext]_vars

(* Claims about the interpolators.                                         *)

\* C7: extrapolation is flat: a query below the first tie x gets the first
\* tie point's y, a query above the last tie x gets the last tie point's y,
\* in all three interpolators.
C7_FlatExtrapolation ==
    ret # NoCall =>
        \A i \in 1..Len(args.xvals) :
            /\ RLt(args.xvals[i], args.xpts[1]) => ret.val[i] = args.ypts[1]
            /\ RGt(args.xvals[i], args.xpts[3]) => ret.val[i] = args.ypts[3]

\* C8: exactness: for strictly increasing tie x-values, a query equal to a
\* tie point's x gets that tie point's y, from the shared-X and from the
\* variable-X interpolator, whatever else the query vector holds.
C8_ExactAtTiePoints ==
    ret.fn \in {"_linear_constX", "_linear_varX"} =>
        \A i \in 1..Len(args.xvals) : \A k \in 1..3 :
            args.xvals[i] = args.xpts[k] => ret.val[i] = args.ypts[k]

\* C22: for strictly increasing tie x-values every query satisfies exactly
\* one of the masks of the shared-X interpolators, so every output entry is
\* written exactly once and none keeps the NaN it was initialised with.
C22_MasksPartition ==
    ret.fn \in {"_linear_constX", "Interpolator.linear"} =>
        \A i \in 1..Len(args.xvals) :
            LET condlist == CondList(args.xpts, args.xvals[i])
            IN  /\ Len(condlist) = Len(args.xpts) + 1
                /\ Cardinality({k \in 1..Len(condlist) : condlist[k]}) = 1
                /\ ~IsNaN(ret.val[i])
                /\ \E k \in 1..Len(condlist) :
                      /\ condlist[k]
                      /\ ret.val[i] = EvalLine(FuncList(args.xpts, args.ypts)[k],
                                               args.xvals[i])

\* A query on the right boundary of the last segment and one below the
\* first tie point.
C22_Witness ==
    /\ ret.fn = "_linear_constX"
    /\ args.xvals[1] = args.xpts[3]
    /\ RLt(args.xvals[2], args.xpts[1])
    /\ args.ypts = <<R(1), R(0), R(2)>>
    /\ ret.val[1] = R(2)
    /\ IsFinite(ret.val[2])

\* C23: the value the variable-X interpolator returns for a query depends
\* only on the query and the pixel's tie points: each entry equals the
\* result of that query evaluated alone, the permuted query vector yields
\* the permuted output, and the stored per-segment slopes and intercepts
\* are after the call what they were before the first query.
C23_QueryOrderIndependent ==
    ret.fn = "_linear_varX" =>
        /\ \A i \in 1..Len(args.xvals) :
              ret.val[i] = linear_varX(args.xpts, args.ypts, <<args.xvals[i]>>)[1]
        /\ linear_varX(args.xpts, args.ypts, <<args.xvals[2], args.xvals[1]>>)
              = <<ret.val[2], ret.val[1]>>
        /\ linear_varX_eqn_after(args.xpts, args.ypts, args.xvals)
              = EqnArr(args.xpts, args.ypts)

-----------------------------------------------------------------------------
(* Absorption features: find_wvl, the constructor's sub-range and          *)
(* calculate_center.  Indices are the code's, counted from 0.              *)

MinBands == 6

MaxBands == 7

MaxModel == 2

\* np.argmin / np.argmax of a non-empty sequence: the 0-based index of the
\* first minimum (maximum); a NaN counts as the extreme value.
RECURSIVE ArgBest(_, _, _, _)
ArgBest(seq, i, best, max) ==
    IF i > Len(seq) THEN best - 1
    ELSE IF IsNaN(seq[best]) THEN best - 1
    ELSE IF \/ IsNaN(seq[i])
            \/ (IF max THEN RGt(seq[i], seq[best]) ELSE RLt(seq[i], seq[best]))
         THEN ArgBest(seq, i + 1, i, max)
         ELSE ArgBest(seq, i + 1, best, max)

ArgMin(seq) == ArgBest(seq, 2, 1, FALSE)

ArgMax(seq) == ArgBest(seq, 2, 1, TRUE)

\* seq[lo:hi] for 0 <= lo, hi <= len(seq)
Slice(seq, lo, hi) == IF lo >= hi THEN <<>> ELSE SubSeq(seq, lo + 1, hi)

\* find_wvl on a plain array: idx = np.argmin(np.abs(wvls - targetwvl))
find_wvl(wvls, targetwvl) ==
    LET idx == ArgMin([i \in 1..Len(wvls) |-> RAbs(RSub(wvls[i], targetwvl))])
    IN  [idx |-> idx, wvl |-> wvls[idx + 1]]

\* find_wvl on a Wavelength object, with the unit the caller declares.
find_wvl_Wavelength(wvls_input, targetwvl, unit) ==
    IF wvls_input.unit # unit
    THEN [outcome |-> "WavelengthUnitError"]
    ELSE LET r == find_wvl(wvls_input.values, targetwvl)
         IN  [outcome |-> "returned", idx |-> r.idx, wvl |-> r.wvl]

\* The constructor without the comparison of the units.
AbsorptionFeature_any_unit(spec, wavelength, low_wavelength, high_wavelength, unit, model) ==
    LET low_idx == find_wvl(wavelength.values, low_wavelength).idx
        high_idx == find_wvl(wavelength.values, high_wavelength).idx
    IN  [outcome |-> "returned",
         spec |-> spec,
         fit_wvl |-> Slice(wavelength.values, low_idx, high_idx),
         fit_spec |-> Slice(spec, low_idx, high_idx),
         model |-> model]

\* AbsorptionFeature3D.__init__ / AbsorptionFeature1D.__init__, up to the
\* fit: spec is one pixel's spectrum, model the fit_result.model computed
\* on the sub-range.
AbsorptionFeature(spec, wavelength, low_wavelength, high_wavelength, unit, model) ==
    IF unit # wavelength.unit
    THEN [outcome |-> "WavelengthUnitError"]
    ELSE LET low_idx == find_wvl(wavelength.values, low_wavelength).idx
             high_idx == find_wvl(wavelength.values, high_wavelength).idx
         IN  [outcome |-> "returned",
              spec |-> spec,
              fit_wvl |-> Slice(wavelength.values, low_idx, high_idx),
              fit_spec |-> Slice(spec, low_idx, high_idx),
              model |-> model]

\* AbsorptionFeature3D.calculate_center, for one pixel of bc_map.
calculate_center_3d(self) ==
    LET center_idx == ArgMin(self.model)
        bc == self.fit_wvl[center_idx + 1]
    IN  IF center_idx = 0 THEN NaN
        ELSE IF center_idx = Len(self.spec) - 1 THEN NaN
        ELSE bc

\* AbsorptionFeature1D.calculate_center: (depth, center).
calculate_center_1d(self) ==
    LET center_idx == ArgMin(self.model)
    IN  IF center_idx = 0 \/ center_idx = Len(self.spec) - 1
        THEN <<NaN, NaN>>
        ELSE <<self.fit_spec[center_idx + 1], self.fit_wvl[center_idx + 1]>>

\* Wavelength grids of N bands, 100 apart, and the targets searched in them.
BandGrid(N) == [i \in 1..N |-> R(100 * i)]

Targets(N) == {R(50 * k) : k \in 1..(2 * N + 1)}

\* fit_order: int = 4 (cube), fit_order: int = 2 (single spectrum)
FitOrder3D == 4

FitOrder1D == 2

\* The fits are taken over sub-ranges with as many samples as coefficients:
\* there the least-squares polynomial interpolates, so that the model is the
\* fitted spectrum and every vector of values is the model of some data.
ModelValues == {R(v) : v \in 0..MaxModel}

SubRangeLen(values, lowvl, hivl) ==
    Len(Slice(values, find_wvl(values, lowvl).idx, find_wvl(values, hivl).idx))

CenterInit ==
    /\ Spec3DInit
    /\ \E N \in MinBands..MaxBands, L \in {FitOrder1D + 1, FitOrder3D + 1} :
       \E lo \in Targets(N), hi \in Targets(N) :
          /\ SubRangeLen(BandGrid(N), lo, hi) = L
          /\ \E u \in {"nm", "um"}, m \in [1..L -> ModelValues] :
                args = [values |-> BandGrid(N), lowvl |-> lo, hivl |-> hi,
                        unit |-> u, model |-> m]
    /\ ret = NoCall

\* The spectrum the feature is built on: the fitted samples in place, the
\* other bands at 1 (continuum level).
SpectrumOf(a) ==
    LET low_idx == find_wvl(a.values, a.lowvl).idx
    IN  [i \in 1..Len(a.values) |->
            IF i - 1 >= low_idx /\ i - 1 < low_idx + Len(a.model)
            THEN a.model[i - low_idx] ELSE R(1)]

\* Spec3D wraps the wavelengths as Wavelength(wvl_arr, "nm").
FeatureOf(a) ==
    AbsorptionFeature(SpectrumOf(a), [values |-> a.values, unit |-> "nm"],
                      a.lowvl, a.hivl, a.unit, a.model)

CalculateCenter3D ==
    /\ ret = NoCall
    /\ Len(args.model) = FitOrder3D + 1
    /\ LET f == FeatureOf(args)
       IN  ret' = IF f.outcome = "returned"
                  THEN [fn |-> "AbsorptionFeature3D.calculate_center",
                        val |-> calculate_center_3d(f)]
                  ELSE [fn |-> "AbsorptionFeature3D.__init__",
                        val |-> f.outcome]
    /\ UNCHANGED <<orchVars, args>>

CalculateCenter1D ==
    /\ ret = NoCall
    /\ Len(args.model) = FitOrder1D + 1
    /\ LET f == FeatureOf(args)
       IN  ret' = IF f.outcome = "returned"
                  THEN [fn |-> "AbsorptionFeature1D.calculate_center",
                        val |-> calculate_center_1d(f)]
                  ELSE [fn |-> "AbsorptionFeature1D.__init__",
                        val |-> f.outcome]
    /\ UNCHANGED <<orchVars, args>>

\* find_wvl(wavelength, low_wvl, unit) on a Wavelength of any unit tag.
FindWvl ==
    /\ ret = NoCall
    /\ \E u \in WvlUnit :
          ret' = [fn |-> "find_wvl", wvls_unit |-> u,
                  val |-> find_wvl_Wavelength([values |-> args.values, unit |-> u],
                                              args.lowvl, args.unit)]
    /\ UNCHANGED <<orchVars, args>>

CenterNext ==
    \/ CalculateCenter3D
    \/ CalculateCenter1D
    \/ FindWvl

SpecCenter == CenterInit /\ [][CenterNext]_vars

(* Claims about the band center.                                           *)

\* C6: calculate_center reports NaN exactly for the pixels whose model
\* minimum is at index 0 or at the last index of the fitted sub-range, and
\* the sub-range wavelength at the minimum index for every other pixel.
C6_BoundaryCenterUndefined ==
    LET center_idx == ArgMin(args.model)
        fit_wvl == FeatureOf(args).fit_wvl
        boundary == center_idx = 0 \/ center_idx = Len(fit_wvl) - 1
    IN  /\ ret.fn = "AbsorptionFeature3D.calculate_center" =>
              ret.val = IF boundary THEN NaN ELSE fit_wvl[center_idx + 1]
        /\ ret.fn = "AbsorptionFeature1D.calculate_center" =>
              ret.val[2] = IF boundary THEN NaN ELSE fit_wvl[center_idx + 1]

\* C21: find_wvl on a Wavelength whose unit differs from its unit
\* argument raises WavelengthUnitError and returns no index; constructing
\* AbsorptionFeature3D or AbsorptionFeature1D with a unit that differs from
\* the wavelength's raises WavelengthUnitError before any fit, and so does
\* fit_absorption once continuum removal is done.
C21_UnitMismatchRejected ==
    /\ (ret.fn = "find_wvl" /\ ret.wvls_unit # args.unit) =>
          ret.val = [outcome |-> "WavelengthUnitError"]
    /\ (ret # NoCall /\ ret.fn # "find_wvl" /\ args.unit # "nm") =>
          /\ ret.fn \in {"AbsorptionFeature3D.__init__",
                         "AbsorptionFeature1D.__init__"}
          /\ ret.val = "WavelengthUnitError"
          /\ DOMAIN FeatureOf(args) = {"outcome"}
    /\ args.unit # wvl_unit =>
          LET r == fit_absorption([Self EXCEPT !.flag = "CONTINUUM_REMOVED"],
                                  wvl_unit, args.unit)
          IN  /\ r.outcome = "WavelengthUnitError"
              /\ r.feature = <<>>

\* The cube constructor called with "um" on wavelengths in "nm".
C21_Witness ==
    /\ ret.fn = "AbsorptionFeature3D.__init__"
    /\ args.unit = "um"
    /\ ret.val = "WavelengthUnitError"

-----------------------------------------------------------------------------
(* The degree-1 least-squares fit, the box filter and the outlier          *)
(* detector, for one pixel.                                                *)

MinLen == 4

MaxLen == 5

MaxSample == 2

\* A long spectrum, flat but for its last TailLen samples: from 26 bands on
\* the edge fits of the box filter take three samples and more.
LongLen == 26

TailLen == 4

RECURSIVE RSum(_)
RSum(seq) == IF seq = <<>> THEN R(0) ELSE RAdd(Head(seq), RSum(Tail(seq)))

RSq(a) == RMul(a, a)

\* Python's round(x, 0) of a finite x >= 0: to the nearest integer, a tie
\* to the even one.
RoundHalfEven(a) ==
    LET q == a[1] \div a[2]
        r == a[1] % a[2]
    IN  IF 2 * r < a[2] THEN q
        ELSE IF 2 * r > a[2] THEN q + 1
        ELSE IF q % 2 = 0 THEN q ELSE q + 1

\* round_to_odd with an exact even value taken to the odd integer above.
round_to_odd_tie_up(num) ==
    LET r == RoundHalfEven(num)
    IN  IF r % 2 = 0
        THEN IF num # R(r)
             THEN r + (IF RGt(num, R(r)) THEN 1 ELSE -1)
             ELSE r + 1
        ELSE r

round_to_odd(num) ==
    LET r == RoundHalfEven(num)
    IN  IF r % 2 = 0
        THEN IF num # R(r)
             THEN r + (IF RGt(num, R(r)) THEN 1 ELSE -1)
             ELSE r - 1
        ELSE r

\* The normal equations (X^T X)^-1 X^T y of a degree-1 fit: the slope and
\* the intercept, with det = n * Sxx - Sx^2 the determinant of X^T X.
NormalEquations1(x, y) ==
    LET n   == R(Len(x))
        Sx  == RSum(x)
        Sy  == RSum(y)
        Sxx == RSum([i \in 1..Len(x) |-> RMul(x[i], x[i])])
        Sxy == RSum([i \in 1..Len(x) |-> RMul(x[i], y[i])])
        det == RSub(RMul(n, Sxx), RMul(Sx, Sx))
    IN  [slope |-> RDiv(RSub(RMul(n, Sxy), RMul(Sx, Sy)), det),
         intercept |-> RDiv(RSub(RMul(Sxx, Sy), RMul(Sx, Sxy)), det)]

\* polyfit_cube for order = 1: X = np.vander(wvl, 2) has the columns
\* (x, 1), so beta = (slope, intercept); residual = spectral_cube - model.
polyfit_cube(spectral_cube, wvl, order) ==
    LET c == NormalEquations1(wvl, spectral_cube)
        model == [i \in 1..Len(wvl) |-> RAdd(RMul(c.slope, wvl[i]), c.intercept)]
    IN  [xdata |-> wvl, ydata |-> spectral_cube, model |-> model,
         beta |-> <<c.slope, c.intercept>>,
         res |-> [i \in 1..Len(wvl) |-> RSub(spectral_cube[i], model[i])]]

\* polyfit_single for order = 1: X = np.vander(wvl, 2, increasing=True) has
\* the columns (1, x), so beta = (intercept, slope); residual = model -
\* spectrum.
polyfit_single(spectrum, wvl, order) ==
    LET c == NormalEquations1(wvl, spectrum)
        model == [i \in 1..Len(wvl) |-> RAdd(c.intercept, RMul(c.slope, wvl[i]))]
    IN  [xdata |-> wvl, ydata |-> spectrum, model |-> model,
         beta |-> <<c.intercept, c.slope>>,
         res |-> [i \in 1..Len(wvl) |-> RSub(model[i], spectrum[i])]]

\* SingleFitResult.eval: np.vander(x, 2, increasing=True) @ beta
SingleFitResult_eval(fit, x) ==
    [i \in 1..Len(x) |-> RAdd(fit.beta[1], RMul(fit.beta[2], x[i]))]

\* edge_length = int(np.maximum(round(nbands * 0.1, 0), 2))
edge_length(nbands) ==
    LET r == RoundHalfEven(Norm(nbands, 10))
    IN  IF r > 2 THEN r ELSE 2

\* The 0-based index ranges np.arange(a, b), as sequences of numbers.
Arange(a, b) == [k \in 1..(b - a) |-> R(a + k - 1)]

\* scipy.ndimage.convolve1d(a, np.ones(window_size)) in its default mode
\* "reflect": an array as long as a, entry i the sum of the samples
\* i - (W - 1) // 2 .. i + W // 2, an index past an end mirrored at the edge.
convolve1d(a, window_size) ==
    LET n == Len(a)
        reflect(i) == IF i < 1 THEN 1 - i ELSE IF i > n THEN 2 * n + 1 - i ELSE i
    IN  [i \in 1..n |->
            RSum([j \in 1..window_size |->
                     a[reflect(i - (window_size - 1) \div 2 + j - 1)]])] \o <<>>

\* np.convolve(a, np.ones(window_size), mode="same"): the central len(a)
\* entries of the full convolution, entry i the sum of the samples
\* i - W // 2 .. i + (W - 1) // 2, those past an end counted as 0.
np_convolve_same(a, window_size) ==
    LET n == Len(a)
        at(i) == IF i < 1 \/ i > n THEN R(0) ELSE a[i]
    IN  [i \in 1..n |->
            RSum([j \in 1..window_size |->
                     at(i - window_size \div 2 + j - 1)])] \o <<>>

\* The statistics trimmed by half a window on each end only.
TrimmedStats_half_window(sums, sums_sq, window_size) ==
    LET W == R(window_size)
        mu == [i \in 1..Len(sums) |-> RDiv(sums[i], W)] \o <<>>
        sigma2 == [i \in 1..Len(sums) |->
                      RSub(RDiv(sums_sq[i], W), RSq(mu[i]))] \o <<>>
        h == window_size \div 2
    IN  [mu |-> Slice(mu, h, Len(mu) - h),
         sigma2 |-> Slice(sigma2, h, Len(sigma2) - h)]

\* mu and musq from the window sums of the extended array and of its
\* square, the variance musq - mu**2 (sigma is its np.sqrt), and both
\* trimmed by [window_size:-window_size], window_size >= 1.
TrimmedStats(sums, sums_sq, window_size) ==
    LET W == R(window_size)
        mu == [i \in 1..Len(sums) |-> RDiv(sums[i], W)] \o <<>>
        sigma2 == [i \in 1..Len(sums) |->
                      RSub(RDiv(sums_sq[i], W), RSq(mu[i]))] \o <<>>
    IN  [mu |-> Slice(mu, window_size, Len(mu) - window_size),
         sigma2 |-> Slice(sigma2, window_size, Len(sigma2) - window_size)]

Squares(a) == [i \in 1..Len(a) |-> RSq(a[i])] \o <<>>

\* smoothed_spectrum of box_filter_cube: the cube between window_size
\* samples of the degree-1 fit over the samples 0 .. edge_length and
\* window_size samples of the degree-1 fit over the samples
\* nbands - edge_length .. nbands - 1.
smoothed_spectrum_cube(raw_cube, window_size) ==
    LET nbands == Len(raw_cube)
        E == edge_length(nbands)
        left_idx == Arange(0, 1 + E)
        right_idx == Arange(nbands - E, nbands)
        left_fit == polyfit_cube(SubSeq(raw_cube, 1, 1 + E), left_idx, 1)
        right_fit == polyfit_cube(SubSeq(raw_cube, nbands - E + 1, nbands),
                                  right_idx, 1)
        left_ext == Arange(-window_size, 0)
        right_ext == Arange(nbands, nbands + window_size)
        left_arm == [k \in 1..window_size |->
                        RAdd(RMul(left_fit.beta[1], left_ext[k]), left_fit.beta[2])]
        right_arm == [k \in 1..window_size |->
                        RAdd(RMul(right_fit.beta[1], right_ext[k]), right_fit.beta[2])]
    IN  left_arm \o raw_cube \o right_arm

\* F of the value of v, with v computed once.
Bind(v, F(_)) == CHOOSE r \in {F(x) : x \in {v}} : TRUE

\* box_filter_cube: both ends extended, the window sums by convolve1d,
\* then the padding trimmed.
box_filter_cube(raw_cube, window_size) ==
    Bind(smoothed_spectrum_cube(raw_cube, window_size),
         LAMBDA smoothed_spectrum :
            Bind(<<convolve1d(smoothed_spectrum, window_size),
                   convolve1d(Squares(smoothed_spectrum), window_size)>>,
                 LAMBDA sums : TrimmedStats(sums[1], sums[2], window_size)))

\* smoothed_spectrum of box_filter_single: the same with polyfit_single
\* and SingleFitResult.eval.
smoothed_spectrum_single(spectrum, window_size) ==
    LET nbands == Len(spectrum)
        E == edge_length(nbands)
        left_idx == Arange(0, 1 + E)
        right_idx == Arange(nbands - E, nbands)
        left_fit == polyfit_single(SubSeq(spectrum, 1, 1 + E), left_idx, 1)
        right_fit == polyfit_single(SubSeq(spectrum, nbands - E + 1, nbands),
                                    right_idx, 1)
        left_arm == SingleFitResult_eval(left_fit, Arange(-window_size, 0))
        right_arm == SingleFitResult_eval(right_fit,
                                          Arange(nbands, nbands + window_size))
    IN  left_arm \o spectrum \o right_arm

\* box_filter_single: the window sums by np.convolve(..., mode="same").
box_filter_single(spectrum, window_size) ==
    Bind(smoothed_spectrum_single(spectrum, window_size),
         LAMBDA smoothed_spectrum :
            Bind(<<np_convolve_same(smoothed_spectrum, window_size),
                   np_convolve_same(Squares(smoothed_spectrum), window_size)>>,
                 LAMBDA sums : TrimmedStats(sums[1], sums[2], window_size)))

\* abs((x - mu) / sig) > threshold with sig = sqrt(sigma2), threshold >= 0:
\* NaN compares false; a zero sig gives +-inf or NaN.
ZScoreExceeds(x, mu, sigma2, threshold) ==
    LET d == RSub(x, mu)
    IN  IF IsNaN(d) \/ IsNaN(sigma2) \/ RLt(sigma2, R(0)) THEN FALSE
        ELSE IF sigma2 = R(0) THEN d # R(0)
        ELSE RGt(RDiv(RSq(d), sigma2), RSq(threshold))

\* window_size = max(round_to_odd(cube.shape[-1] * 0.1), 3)
outlier_window_size(nbands) ==
    LET w == round_to_odd(Norm(nbands, 10))
    IN  IF w > 3 THEN w ELSE 3

\* outlier_idx = abs(zscore) > threshold: the flagged samples (1-based).
outlier_idx(stats, arr, threshold) ==
    {i \in 1..Len(arr) :
        ZScoreExceeds(arr[i], stats.mu[i], stats.sigma2[i], threshold)}

\* np.roll(a, shift)[i] = a[(i - shift) mod n]
Roll(a, shift) == [i \in 1..Len(a) |-> a[((i - 1 - shift) % Len(a)) + 1]]

\* np.nanmean of a pair
NanMean2(a, b) ==
    IF IsNaN(a) THEN b
    ELSE IF IsNaN(b) THEN a
    ELSE RDiv(RAdd(a, b), R(2))

\* The replacement with the wrapped-around neighbours left in.
Replacement_circular(arr) ==
    [i \in 1..Len(arr) |-> NanMean2(Roll(arr, -1)[i], Roll(arr, 1)[i])]

\* The neighbours stacked by remove_outliers, with the wrapped-around ones
\* set to NaN, and their nanmean.
Replacement(arr) ==
    LET N == Len(arr)
        right == Roll(arr, -1)
        left == Roll(arr, 1)
    IN  [i \in 1..N |->
            NanMean2(IF i = N THEN NaN ELSE right[i],
                     IF i = 1 THEN NaN ELSE left[i])]

\* remove_outliers of spec3D
remove_outliers(original_cube, threshold) ==
    LET flagged == outlier_idx(
                       box_filter_cube(original_cube,
                                       outlier_window_size(Len(original_cube))),
                       original_cube, threshold)
        replacement == Replacement(original_cube)
    IN  [i \in 1..Len(original_cube) |->
            IF i \in flagged THEN replacement[i] ELSE original_cube[i]]

\* remove_outliers of spec1D
remove_outliers_1d(original_spectrum, threshold) ==
    LET flagged == outlier_idx(
                       box_filter_single(original_spectrum,
                                         outlier_window_size(Len(original_spectrum))),
                       original_spectrum, threshold)
        replacement == Replacement(original_spectrum)
    IN  [i \in 1..Len(original_spectrum) |->
            IF i \in flagged THEN replacement[i] ELSE original_spectrum[i]]

\* The samples remove_outliers flags in a spectrum.
Flagged3D(spectrum, threshold) ==
    outlier_idx(box_filter_cube(spectrum, outlier_window_size(Len(spectrum))),
                spectrum, threshold)

Flagged1D(spectrum, threshold) ==
    outlier_idx(box_filter_single(spectrum, outlier_window_size(Len(spectrum))),
                spectrum, threshold)

\* Thresholds the detector is tried with: 1/2, 1 and the default 3/2.
OutlierThresholds == {Norm(1, 2), R(1), Norm(3, 2)}

\* A flat spectrum of LongLen samples ending in the given tail.
LongSpectrum(tail) ==
    [i \in 1..LongLen |->
        IF i > LongLen - TailLen THEN tail[i - (LongLen - TailLen)] ELSE R(0)]
    \o <<>>

OutlierInit ==
    /\ Spec3DInit
    /\ \E threshold \in OutlierThresholds :
          \/ \E N \in MinLen..MaxLen :
             \E spectrum \in [1..N -> {R(v) : v \in 0..MaxSample}] :
                args = [spectrum |-> spectrum, threshold |-> threshold]
          \/ \E tail \in [1..TailLen -> {R(v) : v \in 0..MaxSample}] :
                args = [spectrum |-> LongSpectrum(tail),
                        threshold |-> threshold]
    /\ ret = NoCall

RemoveOutliers3D ==
    /\ ret = NoCall
    /\ ret' = [fn |-> "spec3D.remove_outliers",
               val |-> remove_outliers(args.spectrum, args.threshold)]
    /\ UNCHANGED <<orchVars, args>>

RemoveOutliers1D ==
    /\ ret = NoCall
    /\ ret' = [fn |-> "spec1D.remove_outliers",
               val |-> remove_outliers_1d(args.spectrum, args.threshold)]
    /\ UNCHANGED <<orchVars, args>>

OutlierNext ==
    \/ RemoveOutliers3D
    \/ RemoveOutliers1D

SpecOutliers == OutlierInit /\ [][OutlierNext]_vars

(* Claims about the outlier detector.                                      *)

\* C10: every sample not flagged keeps its input value; a flagged interior
\* sample becomes the mean of its two input neighbours; a flagged first
\* sample becomes input[1] and a flagged last sample input[N-2] (0-based);
\* the neighbours' input values are used also when they are flagged.
C10_OutputRule ==
    ret # NoCall =>
        LET input == args.spectrum
            N == Len(input)
            flagged == IF ret.fn = "spec3D.remove_outliers"
                       THEN Flagged3D(input, args.threshold)
                       ELSE Flagged1D(input, args.threshold)
        IN  \A i \in 1..N :
                ret.val[i] =
                    IF i \notin flagged THEN input[i]
                    ELSE IF i = 1 THEN input[2]
                    ELSE IF i = N THEN input[N - 1]
                    ELSE RDiv(RAdd(input[i - 1], input[i + 1]), R(2))

\* A flagged first sample next to a flagged second one, and a last sample
\* that differs from the second, so that wraparound would show.
C10_Witness ==
    /\ ret.fn = "spec3D.remove_outliers"
    /\ {1, 2} \subseteq Flagged3D(args.spectrum, args.threshold)
    /\ args.spectrum[Len(args.spectrum)] # args.spectrum[2]
    /\ ret.val[1] = args.spectrum[2]

\* A flagged last sample that differs from its left neighbour and from the
\* first sample, replaced by the left neighbour's input value.
C10_LastSampleFlagged ==
    LET N == Len(args.spectrum)
    IN  /\ ret.fn = "spec1D.remove_outliers"
        /\ N \in Flagged1D(args.spectrum, args.threshold)
        /\ args.spectrum[N] # args.spectrum[N - 1]
        /\ args.spectrum[1] # args.spectrum[N - 1]
        /\ ret.val[N] = args.spectrum[N - 1]

-----------------------------------------------------------------------------
(* remove_outliers in binary floating point: every sum, product and        *)
(* quotient of box_filter_cube rounded to the nearest number of FloatBits  *)
(* significant bits, a tie to the even one (the arrays of the code are     *)
(* float64, FloatBits = 53).                                               *)

FloatBits == 8

MaxUlps == 2

FloatLen == 5

RECURSIVE Pow2(_)
Pow2(k) ==
    IF k = 0 THEN R(1)
    ELSE IF k > 0 THEN RMul(R(2), Pow2(k - 1))
    ELSE RDiv(Pow2(k + 1), R(2))

\* a > 0 as m * 2^e with 2^(FloatBits - 1) <= m < 2^FloatBits
RECURSIVE Significand(_, _)
Significand(a, e) ==
    IF RGe(a, Pow2(FloatBits)) THEN Significand(RDiv(a, R(2)), e + 1)
    ELSE IF RLt(a, Pow2(FloatBits - 1)) THEN Significand(RMul(a, R(2)), e - 1)
    ELSE [m |-> a, e |-> e]

\* The floating-point number nearest to x.
Fl(x) ==
    IF ~IsFinite(x) \/ x = R(0) THEN x
    ELSE LET s == Significand(RAbs(x), 0)
             q == RoundHalfEven(s.m)
         IN  RMul(R(Sign(x[1]) * q), Pow2(s.e))

FlSeq(a) == [i \in 1..Len(a) |-> Fl(a[i])] \o <<>>

\* scipy.ndimage.convolve1d with the symmetric weights np.ones(W), W odd:
\* the centre sample, then the pairs (a[i - ll] + a[i + ll]) added from the
\* outermost pair inwards, each sum rounded.
RECURSIVE SymmetricSum(_, _, _, _)
SymmetricSum(a, i, ll, tmp) ==
    IF ll = 0 THEN tmp
    ELSE LET n == Len(a)
             reflect(k) == IF k < 1 THEN 1 - k ELSE IF k > n THEN 2 * n + 1 - k ELSE k
         IN  SymmetricSum(a, i, ll - 1,
                          Fl(RAdd(tmp, Fl(RAdd(a[reflect(i - ll)],
                                               a[reflect(i + ll)])))))

convolve1d_float(a, window_size) ==
    [i \in 1..Len(a) |-> SymmetricSum(a, i, window_size \div 2, a[i])] \o <<>>

\* box_filter_cube: the arms are the exact least-squares lines rounded
\* once; mu, musq and musq - mu**2 are rounded operation by operation.
box_filter_cube_float(raw_cube, window_size) ==
    Bind(FlSeq(smoothed_spectrum_cube(raw_cube, window_size)),
         LAMBDA smoothed_spectrum :
            Bind(<<convolve1d_float(smoothed_spectrum, window_size),
                   convolve1d_float(FlSeq(Squares(smoothed_spectrum)),
                                    window_size)>>,
                 LAMBDA sums :
                    Bind([i \in 1..Len(smoothed_spectrum) |->
                             Fl(RDiv(sums[1][i], R(window_size)))] \o <<>>,
                         LAMBDA mu :
                            Bind([i \in 1..Len(mu) |->
                                     Fl(RSub(Fl(RDiv(sums[2][i], R(window_size))),
                                             Fl(RSq(mu[i]))))] \o <<>>,
                                 LAMBDA sigma2 :
                                    [mu |-> Slice(mu, window_size,
                                                  Len(mu) - window_size),
                                     sigma2 |-> Slice(sigma2, window_size,
                                                      Len(sigma2) - window_size)]))))

\* remove_outliers: the statistics, the flagged samples and the returned
\* array.  The z-score itself is compared as in ZScoreExceeds: NaN for a
\* negative variance, +-inf or NaN for a zero one.
remove_outliers_float(original_cube, threshold) ==
    Bind(box_filter_cube_float(original_cube,
                               outlier_window_size(Len(original_cube))),
         LAMBDA stats :
            Bind(<<outlier_idx(stats, original_cube, threshold),
                   FlSeq(Replacement(original_cube))>>,
                 LAMBDA fr :
                    [mu |-> stats.mu, sigma2 |-> stats.sigma2,
                     outlier_idx |-> fr[1],
                     cube |-> [i \in 1..Len(original_cube) |->
                                  IF i \in fr[1] THEN fr[2][i]
                                  ELSE original_cube[i]] \o <<>>]))

\* Spectra of floating-point numbers a few units in the last place apart,
\* and thresholds from the default 1.5 upwards.
FloatSamples == {RAdd(Pow2(FloatBits - 1), R(90 + k)) : k \in 0..MaxUlps}

FloatThresholds == {Norm(3, 2), R(2), R(3)}

OutlierFloatInit ==
    /\ Spec3DInit
    /\ \E threshold \in FloatThresholds :
       \E spectrum \in [1..FloatLen -> FloatSamples] :
            args = [spectrum |-> spectrum, threshold |-> threshold]
    /\ ret = NoCall

RemoveOutliersFloat ==
    /\ ret = NoCall
    /\ ret' = [fn |-> "remove_outliers",
               val |-> remove_outliers_float(args.spectrum, args.threshold)]
    /\ UNCHANGED <<orchVars, args>>

OutlierFloatNext == RemoveOutliersFloat

SpecOutliersFloat == OutlierFloatInit /\ [][OutlierFloatNext]_vars

\* C28: in remove_outliers with window size W a sample's squared deviation
\* from its local mean is at most (W - 1) times its local variance, so
\* that for a spectral length from 3 to 40 (W = 3) a threshold of 1.5 or
\* more flags no sample and the output equals the input.
C28_DefaultThresholdFlagsNothing ==
    ret # NoCall =>
        LET N == Len(args.spectrum)
            W == outlier_window_size(N)
        IN  /\ W = 3
            /\ \A i \in 1..N :
                  RLe(RSq(RSub(args.spectrum[i], ret.val.mu[i])),
                      RMul(R(W - 1), ret.val.sigma2[i]))
            /\ ret.val.outlier_idx = {}
            /\ ret.val.cube = args.spectrum

-----------------------------------------------------------------------------
(* The box filter called on its own, for one pixel.                        *)

MaxWindow == 4

BoxFilterInit ==
    /\ Spec3DInit
    /\ \E N \in 3..MinLen, window_size \in 1..MaxWindow :
       \E spectrum \in [1..N -> {R(v) : v \in 0..MaxSample}] :
            args = [spectrum |-> spectrum, window_size |-> window_size]
    /\ ret = NoCall

\* box_filter_cube(cube, window_size): mu and sigma (as its square), and
\* the extended array they were computed from.
BoxFilterCube ==
    /\ ret = NoCall
    /\ LET r == box_filter_cube(args.spectrum, args.window_size)
       IN  ret' = [fn |-> "box_filter_cube",
                   val |-> [mu |-> r.mu, sigma2 |-> r.sigma2,
                            smoothed_spectrum |->
                                smoothed_spectrum_cube(args.spectrum,
                                                       args.window_size)]]
    /\ UNCHANGED <<orchVars, args>>

BoxFilterSingle ==
    /\ ret = NoCall
    /\ LET r == box_filter_single(args.spectrum, args.window_size)
       IN  ret' = [fn |-> "box_filter_single",
                   val |-> [mu |-> r.mu, sigma2 |-> r.sigma2,
                            smoothed_spectrum |->
                                smoothed_spectrum_single(args.spectrum,
                                                         args.window_size)]]
    /\ UNCHANGED <<orchVars, args>>

BoxFilterNext ==
    \/ BoxFilterCube
    \/ BoxFilterSingle

SpecBoxFilter == BoxFilterInit /\ [][BoxFilterNext]_vars

(* Claims about the box filter.                                            *)

\* The least-squares line over the samples lo .. hi (0-based) of a
\* spectrum, evaluated at the indices a .. b - 1.
EdgeLine(spectrum, lo, hi, a, b) ==
    LET c == NormalEquations1(Arange(lo, hi + 1), SubSeq(spectrum, lo + 1, hi + 1))
    IN  [k \in 1..(b - a) |-> RAdd(RMul(c.slope, R(a + k - 1)), c.intercept)]

\* C17: with E = max(round(N / 10), 2) the left extension is the degree-1
\* fit over the samples 0 .. E and the right extension the degree-1 fit
\* over the samples N - E - 1 .. N - 1, each over E + 1 real samples,
\* evaluated at -W .. -1 and at N .. N + W - 1.
C17_EdgeFitsSymmetric ==
    ret # NoCall =>
        LET N == Len(args.spectrum)
            W == args.window_size
            E == edge_length(N)
            ext == ret.val.smoothed_spectrum
        IN  /\ \A k \in 1..W :
                  ext[k] = EdgeLine(args.spectrum, 0, E, -W, 0)[k]
            /\ \A k \in 1..W :
                  ext[W + N + k]
                      = EdgeLine(args.spectrum, N - E - 1, N - 1, N, N + W)[k]

\* C18: for N >= 3 and W >= 1 the array is extended by W samples on each
\* end and the mean and the noise returned have the spectral length N.
C18_OutputLength ==
    ret # NoCall =>
        LET N == Len(args.spectrum)
        IN  /\ Len(ret.val.smoothed_spectrum) = N + 2 * args.window_size
            /\ Len(ret.val.mu) = N
            /\ Len(ret.val.sigma2) = N
            /\ DOMAIN ret.val.mu = 1..N
            /\ DOMAIN ret.val.sigma2 = 1..N

\* The shortest spectrum filtered with a window longer than it, by the
\* cube and by the single-spectrum filter.
C18_Witness ==
    /\ ret # NoCall
    /\ Len(args.spectrum) = 3
    /\ args.window_size = 4
    /\ Len(ret.val.mu) = 3
    /\ ret.val.mu[1] # ret.val.mu[3]

-----------------------------------------------------------------------------
(* The window size of the outlier detector over the spectral lengths.      *)

MaxN == 120

WindowInit ==
    /\ Spec3DInit
    /\ \E nbands \in 0..MaxN : args = [nbands |-> nbands]
    /\ ret = NoCall

\* round_to_odd(nbands * 0.1)
RoundToOdd ==
    /\ ret = NoCall
    /\ ret' = [fn |-> "round_to_odd",
               val |-> round_to_odd(Norm(args.nbands, 10))]
    /\ UNCHANGED <<orchVars, args>>

\* window_size = max(round_to_odd(nbands * 0.1), 3)
OutlierWindowSize ==
    /\ ret = NoCall
    /\ ret' = [fn |-> "outlier_window_size",
               val |-> outlier_window_size(args.nbands)]
    /\ UNCHANGED <<orchVars, args>>

WindowNext ==
    \/ RoundToOdd
    \/ OutlierWindowSize

SpecWindow == WindowInit /\ [][WindowNext]_vars

(* Claims about the window size.                                           *)

\* The odd integers a tenth of a spectral length can be rounded to.
OddIntegers == {k \in -1..(MaxN + 1) : k % 2 = 1}

\* C19: round_to_odd(0.1 * N) is the odd integer nearest to N / 10, the
\* lower odd neighbour when N / 10 is exactly an even integer, and the
\* window size max(round_to_odd(0.1 * N), 3) is an odd integer >= 3.
C19_WindowOddNearest ==
    LET N == args.nbands
        tie == N % 20 = 0
    IN  /\ ret.fn = "round_to_odd" =>
              /\ ret.val \in OddIntegers
              /\ \A k \in OddIntegers \ {ret.val} :
                     \/ Abs(10 * ret.val - N) < Abs(10 * k - N)
                     \/ tie /\ k = ret.val + 2
                            /\ Abs(10 * ret.val - N) = Abs(10 * k - N)
              /\ tie => ret.val = (N \div 10) - 1
        /\ ret.fn = "outlier_window_size" =>
              /\ ret.val % 2 = 1
              /\ ret.val >= 3
              /\ \E w \in OddIntegers :
                     /\ \A k \in OddIntegers : Abs(10 * w - N) <= Abs(10 * k - N)
                     /\ tie => w = (N \div 10) - 1
                     /\ ret.val = IF w > 3 THEN w ELSE 3

\* A length whose tenth is exactly the even integer 6: the window is 5.
C19_Witness ==
    /\ ret.fn = "outlier_window_size"
    /\ args.nbands = 60
    /\ ret.val = 5

-----------------------------------------------------------------------------
(* double_line continuum removal of spec3D, for one pixel.                 *)

MaxRefl == 2

\* anchor_pts = np.array([700, 1550, 2600])
AnchorPtsNm == <<R(700), R(1550), R(2600)>>

\* cont2_ranges: (650, 1000), (1350, 1600), (2000, 2600)
Cont2RangesNm == <<<<R(650), R(1000)>>, <<R(1350), R(1600)>>, <<R(2000), R(2600)>>>>

\* 10**-3 for "um", 10**-9 for "m"
UnitFactor(unit) ==
    IF unit = "um" THEN Norm(1, 1000)
    ELSE IF unit = "m" THEN Norm(1, 1000000000)
    ELSE R(1)

Scaled(seq, factor) == [i \in 1..Len(seq) |-> RMul(seq[i], factor)] \o <<>>

\* np.argmin(np.abs(values - target)), 0-based
NearestIdx(values, target) ==
    ArgMin([i \in 1..Len(values) |-> RAbs(RSub(values[i], target))] \o <<>>)

\* cube / continuum, sample by sample
Ratio(a, b) == [i \in 1..Len(a) |-> RDiv(a[i], b[i])] \o <<>>

\* cont1_band_idx: the 0-based index of the band nearest to each anchor.
Cont1BandIdx(wvls) ==
    LET anchor_pts == Scaled(AnchorPtsNm, UnitFactor(wvls.unit))
    IN  [n \in 1..3 |-> NearestIdx(wvls.values, anchor_pts[n])] \o <<>>

\* Pass 1: the three shared anchors and the spectrum divided by the line
\* through them.
Continuum1Removed(arr, wvls) ==
    LET cont1_band_idx == Cont1BandIdx(wvls)
        cont1_band_wvls == [n \in 1..3 |-> wvls.values[cont1_band_idx[n] + 1]] \o <<>>
        cont1_spectrum_values == [n \in 1..3 |-> arr[cont1_band_idx[n] + 1]] \o <<>>
        continuum1 == linear_constX(cont1_band_wvls, cont1_spectrum_values,
                                    wvls.values)
    IN  Ratio(arr, continuum1)

\* Pass 2: the 0-based [lo_idx, hi_idx) of the three sub-ranges.
Cont2Bounds(wvls) ==
    [n \in 1..3 |->
        LET val == Scaled(Cont2RangesNm[n], UnitFactor(wvls.unit))
        IN  <<NearestIdx(wvls.values, val[1]), NearestIdx(wvls.values, val[2])>>]
    \o <<>>

\* cont2_band_idx: per sub-range the index of the maximum of the
\* Pass-1-normalised spectrum.
Cont2BandIdx(continuum1_removed, bounds) ==
    [n \in 1..3 |->
        ArgMax(Slice(continuum1_removed, bounds[n][1], bounds[n][2]))
        + bounds[n][1]] \o <<>>

\* double_line that takes any other unit tag for nanometres.
double_line_any_unit(arr, wvls) ==
    LET continuum1_removed == Continuum1Removed(arr, wvls)
        bounds == Cont2Bounds(wvls)
    IN  IF \E n \in 1..3 : bounds[n][1] >= bounds[n][2]
        THEN [outcome |-> "ValueError"]
        ELSE LET cont2_band_idx == Cont2BandIdx(continuum1_removed, bounds)
                 cont2_band_wvl == [n \in 1..3 |-> wvls.values[cont2_band_idx[n] + 1]] \o <<>>
                 cont2_spectrum_values == [n \in 1..3 |-> arr[cont2_band_idx[n] + 1]] \o <<>>
                 continuum2 == linear_varX(cont2_band_wvl, cont2_spectrum_values,
                                           wvls.values)
             IN  [outcome |-> "returned",
                  continuum_removed |-> Ratio(arr, continuum2),
                  continuum |-> continuum2,
                  cont2_band_idx |-> cont2_band_idx]

double_line(arr, wvls) ==
    LET continuum1_removed == Continuum1Removed(arr, wvls)
        bounds == Cont2Bounds(wvls)
    IN  IF wvls.unit \notin {"nm", "um", "m"}
        THEN [outcome |-> "ValueError"]
        ELSE IF \E n \in 1..3 : bounds[n][1] >= bounds[n][2]
        THEN [outcome |-> "ValueError"]
        ELSE LET cont2_band_idx == Cont2BandIdx(continuum1_removed, bounds)
                 cont2_band_wvl == [n \in 1..3 |-> wvls.values[cont2_band_idx[n] + 1]] \o <<>>
                 cont2_spectrum_values == [n \in 1..3 |-> arr[cont2_band_idx[n] + 1]] \o <<>>
                 continuum2 == linear_varX(cont2_band_wvl, cont2_spectrum_values,
                                           wvls.values)
             IN  [outcome |-> "returned",
                  continuum_removed |-> Ratio(arr, continuum2),
                  continuum |-> continuum2,
                  cont2_band_idx |-> cont2_band_idx]

\* A strictly ascending grid of eight bands over the three sub-ranges, in
\* nanometres.
GridNm ==
    <<R(600), R(700), R(1000), R(1350), R(1500), R(1600), R(2000), R(2600)>>

\* The same range in microns, with one band in the second sub-range.
GridUm ==
    <<Norm(6, 10), Norm(7, 10), R(1), Norm(135, 100), Norm(16, 10), R(2),
      Norm(26, 10)>>

\* A strictly ascending grid of four bands, one in each sub-range and one
\* below them.
SparseGridNm == <<R(100), R(1250), R(1900), R(2600)>>

Wavelengths ==
    {[values |-> GridNm, unit |-> "nm"], [values |-> GridUm, unit |-> "um"],
     [values |-> SparseGridNm, unit |-> "nm"]}

ContinuumInit ==
    /\ Spec3DInit
    /\ \E wvls \in Wavelengths :
       \E arr \in [1..Len(wvls.values) -> {R(v) : v \in 0..MaxRefl}] :
            args = [cube |-> arr, wvls |-> wvls]
    /\ ret = NoCall

DoubleLine ==
    /\ ret = NoCall
    /\ ret' = [fn |-> "double_line", val |-> double_line(args.cube, args.wvls)]
    /\ UNCHANGED <<orchVars, args>>

ContinuumNext == DoubleLine

SpecContinuum == ContinuumInit /\ [][ContinuumNext]_vars

(* Claims about continuum removal.                                         *)

\* C9 as stated: after double_line the continuum-removed value at each of
\* the pixel's three Pass-2 tie-point indices equals 1.
C9_TiePointsAtOne ==
    (ret.fn = "double_line" /\ ret.val.outcome = "returned") =>
        \A n \in 1..3 :
            ret.val.continuum_removed[ret.val.cont2_band_idx[n] + 1] = R(1)

\* C9 amended: the returned continuum equals the original reflectance at
\* each of the three Pass-2 tie-point indices, and the continuum-removed
\* value there equals 1 wherever that reflectance is not zero (0 / 0 is NaN).
C9_TiePointsAtOneIfNonzero ==
    (ret.fn = "double_line" /\ ret.val.outcome = "returned") =>
        \A n \in 1..3 :
            LET i == ret.val.cont2_band_idx[n] + 1
            IN  /\ ret.val.continuum[i] = args.cube[i]
                /\ args.cube[i] # R(0) => ret.val.continuum_removed[i] = R(1)
                /\ args.cube[i] = R(0) => IsNaN(ret.val.continuum_removed[i])

\* A pixel whose three tie points are not all at the first candidate band
\* and carry different nonzero reflectances.
C9_Witness ==
    /\ ret.fn = "double_line"
    /\ ret.val.outcome = "returned"
    /\ ret.val.cont2_band_idx[1] = 1
    /\ ret.val.cont2_band_idx[2] = 4
    /\ args.cube[2] = R(2)
    /\ args.cube[5] = R(1)
    /\ args.cube[7] = R(2)
    /\ \A n \in 1..3 :
          ret.val.continuum_removed[ret.val.cont2_band_idx[n] + 1] = R(1)

\* C24: on a strictly ascending grid, whenever double_line returns, the
\* three Pass-1 anchor indices are strictly increasing and the three Pass-2
\* tie indices are strictly increasing, so that no segment slope has a
\* zero denominator.
C24_TiePointsIncreasing ==
    (ret.fn = "double_line" /\ ret.val.outcome = "returned") =>
        LET cont1_band_idx == Cont1BandIdx(args.wvls)
            cont2_band_idx == ret.val.cont2_band_idx
        IN  /\ cont1_band_idx[1] < cont1_band_idx[2]
            /\ cont1_band_idx[2] < cont1_band_idx[3]
            /\ cont2_band_idx[1] < cont2_band_idx[2]
            /\ cont2_band_idx[2] < cont2_band_idx[3]

-----------------------------------------------------------------------------
(* double_line of spec1D, and both variants over the unit tags.            *)

\* cont2_ranges of spec1D: (650, 1000), (1250, 1600), (2000, 2800)
Cont2RangesNm1D ==
    <<<<R(650), R(1000)>>, <<R(1250), R(1600)>>, <<R(2000), R(2800)>>>>

\* Pass 1 of spec1D: the same anchors, interpolated with Interpolator.
Continuum1Removed_1d(spectrum, wvls) ==
    LET anchor_pts == Scaled(AnchorPtsNm, UnitFactor(wvls.unit))
        cont1_band_idx == [n \in 1..3 |-> NearestIdx(wvls.values, anchor_pts[n])] \o <<>>
        cont1_band_wvls == [n \in 1..3 |-> wvls.values[cont1_band_idx[n] + 1]] \o <<>>
        cont1_spectrum_values == [n \in 1..3 |-> spectrum[cont1_band_idx[n] + 1]] \o <<>>
        continuum1 == Interpolator_linear(cont1_band_wvls, cont1_spectrum_values,
                                          wvls.values)
    IN  Ratio(spectrum, continuum1)

Cont2Bounds_1d(wvls) ==
    [n \in 1..3 |->
        LET val == Scaled(Cont2RangesNm1D[n], UnitFactor(wvls.unit))
        IN  <<NearestIdx(wvls.values, val[1]), NearestIdx(wvls.values, val[2])>>]
    \o <<>>

double_line_1d(spectrum, wvls) ==
    LET continuum1_removed == Continuum1Removed_1d(spectrum, wvls)
        bounds == Cont2Bounds_1d(wvls)
    IN  IF wvls.unit \notin {"nm", "um", "m"}
        THEN [outcome |-> "ValueError"]
        ELSE IF \E n \in 1..3 : bounds[n][1] >= bounds[n][2]
        THEN [outcome |-> "ValueError"]
        ELSE LET cont2_band_idx == Cont2BandIdx(continuum1_removed, bounds)
                 cont2_band_wvls == [n \in 1..3 |-> wvls.values[cont2_band_idx[n] + 1]] \o <<>>
                 cont2_spectrum_values == [n \in 1..3 |-> spectrum[cont2_band_idx[n] + 1]] \o <<>>
                 continuum2 == Interpolator_linear(cont2_band_wvls,
                                                   cont2_spectrum_values,
                                                   wvls.values)
             IN  [outcome |-> "returned",
                  continuum_removed |-> Ratio(spectrum, continuum2),
                  continuum |-> continuum2,
                  cont2_band_idx |-> cont2_band_idx]

\* Six bands at the ends of the sub-ranges of spec1D, in nanometres and
\* in microns.
UnitGridNm == <<R(650), R(1000), R(1250), R(1600), R(2000), R(2800)>>

UnitGridUm ==
    <<Norm(65, 100), R(1), Norm(125, 100), Norm(16, 10), R(2), Norm(28, 10)>>

\* Unit tags that Wavelength accepts (it does not validate the tag) and
\* double_line does not know.
OtherUnits == {"cm", "micron", "NM"}

UnitWavelengths ==
    {[values |-> UnitGridNm, unit |-> "nm"], [values |-> UnitGridUm, unit |-> "um"]}
    \cup {[values |-> UnitGridNm, unit |-> u] : u \in OtherUnits}

UnitsInit ==
    /\ Spec3DInit
    /\ \E wvls \in UnitWavelengths :
       \E arr \in [1..Len(wvls.values) -> {R(v) : v \in 0..MaxRefl}] :
            args = [cube |-> arr, wvls |-> wvls]
    /\ ret = NoCall

DoubleLine1D ==
    /\ ret = NoCall
    /\ ret' = [fn |-> "double_line_1d",
               val |-> double_line_1d(args.cube, args.wvls)]
    /\ UNCHANGED <<orchVars, args>>

UnitsNext ==
    \/ DoubleLine
    \/ DoubleLine1D

SpecUnits == UnitsInit /\ [][UnitsNext]_vars

\* C20: double_line of spec3D and of spec1D, called with a Wavelength whose
\* unit tag is none of "nm", "um", "m", raises an error and returns
\* neither a continuum-removed array nor a continuum.
C20_UnknownUnitRaises ==
    (ret # NoCall /\ args.wvls.unit \notin {"nm", "um", "m"}) =>
        /\ ret.val.outcome = "ValueError"
        /\ DOMAIN ret.val = {"outcome"}

\* The single-spectrum variant called with the tag "micron" on a spectrum
\* it would have processed in nanometres.
C20_Witness ==
    /\ ret.fn = "double_line_1d"
    /\ args.wvls.unit = "micron"
    /\ args.cube = <<R(1), R(2), R(1), R(2), R(1), R(2)>>
    /\ ret.val.outcome = "ValueError"
    /\ double_line_1d(args.cube, [args.wvls EXCEPT !.unit = "nm"]).outcome
           = "returned"

-----------------------------------------------------------------------------
(* Wavelength: the unit conversions to_nm, to_um and to_m.                 *)

MaxConversions == 3

MaxWvl == 1

\* 10**k for an integer k, as 10**3, 10**-9, ... evaluate.
RECURSIVE Pow10(_)
Pow10(k) ==
    IF k = 0 THEN R(1)
    ELSE IF k > 0 THEN RMul(R(10), Pow10(k - 1))
    ELSE RDiv(Pow10(k + 1), R(10))

\* self.values *= factor
ScaleValues(self, factor) ==
    [self EXCEPT !.values = Scaled(self.values, factor)]

to_nm(self) ==
    LET s == IF self.unit = "nm" THEN self
             ELSE IF self.unit = "um" THEN ScaleValues(self, Pow10(3))
             ELSE IF self.unit = "m" THEN ScaleValues(self, Pow10(9))
             ELSE self
    IN  [s EXCEPT !.unit = "nm"]

\* to_um that takes metres to millimetres.
to_um_from_m_by_1000(self) ==
    LET s == IF self.unit = "nm" THEN ScaleValues(self, Pow10(-3))
             ELSE IF self.unit = "um" THEN self
             ELSE IF self.unit = "m" THEN ScaleValues(self, Pow10(3))
             ELSE self
    IN  [s EXCEPT !.unit = "um"]

to_um(self) ==
    LET s == IF self.unit = "nm" THEN ScaleValues(self, Pow10(-3))
             ELSE IF self.unit = "um" THEN self
             ELSE IF self.unit = "m" THEN ScaleValues(self, Pow10(6))
             ELSE self
    IN  [s EXCEPT !.unit = "um"]

to_m(self) ==
    LET s == IF self.unit = "nm" THEN ScaleValues(self, Pow10(-9))
             ELSE IF self.unit = "um" THEN ScaleValues(self, Pow10(-6))
             ELSE IF self.unit = "m" THEN self
             ELSE self
    IN  [s EXCEPT !.unit = "m"]

\* Wavelength(values, unit) of one or two values, and the conversions made
\* on it so far.
ConversionInit ==
    /\ Spec3DInit
    /\ \E unit \in WvlUnit, N \in 1..2 :
       \E values \in [1..N -> {R(v) : v \in 1..MaxWvl}] :
            args = [original |-> [values |-> values, unit |-> unit],
                    wavelength |-> [values |-> values, unit |-> unit],
                    history |-> <<>>]
    /\ ret = NoCall

Conversion(name, w) ==
    /\ Len(args.history) < MaxConversions
    /\ args' = [args EXCEPT !.wavelength = w,
                            !.history = Append(@, [fn |-> name,
                                                   before |-> args.wavelength])]
    /\ ret' = [fn |-> name, val |-> <<>>]
    /\ UNCHANGED orchVars

ToNm == Conversion("to_nm", to_nm(args.wavelength))

ToUm == Conversion("to_um", to_um(args.wavelength))

ToM == Conversion("to_m", to_m(args.wavelength))

ConversionNext ==
    \/ ToNm
    \/ ToUm
    \/ ToM

SpecConversion == ConversionInit /\ [][ConversionNext]_vars

(* Claims about the unit conversions.                                      *)

\* e(nm) = -9, e(um) = -6, e(m) = 0
UnitExponent(unit) == IF unit = "nm" THEN -9 ELSE IF unit = "um" THEN -6 ELSE 0

\* C27: after any sequence of to_nm, to_um and to_m the unit tag is the
\* target of the last call and the values are the original ones times
\* 10^(e(original) - e(current)); back in the original unit the values are
\* the original ones, and a conversion to the current unit changes nothing.
C27_ConversionsCompose ==
    LET w == args.wavelength
        o == args.original
        n == Len(args.history)
    IN  /\ n > 0 => w.unit = (CHOOSE u \in WvlUnit :
                                 args.history[n].fn = "to_" \o u)
        /\ w.values = Scaled(o.values,
                             Pow10(UnitExponent(o.unit) - UnitExponent(w.unit)))
        /\ w.unit = o.unit => w.values = o.values
        /\ (n > 0 /\ args.history[n].before.unit = w.unit) =>
               w = args.history[n].before

\* Nanometres to metres, to microns and back to nanometres.
C27_Witness ==
    /\ args.original.unit = "nm"
    /\ args.original.values = <<R(1), R(1)>>
    /\ Len(args.history) = 3
    /\ args.history[1].fn = "to_m"
    /\ args.history[2].fn = "to_um"
    /\ args.history[2].before.values = <<Norm(1, 1000000000), Norm(1, 1000000000)>>
    /\ args.history[3].fn = "to_nm"
    /\ args.history[3].before.values = <<Norm(1, 1000), Norm(1, 1000)>>
    /\ args.wavelength = args.original

-----------------------------------------------------------------------------
(* The arrays behind the stages: which array each stage function reads,    *)
(* allocates and writes.  A heap is a sequence of arrays, an array is      *)
(* named by its position in it, and its contents are, as in the cube's     *)
(* history, the stage functions applied to the caller's data.              *)

MaxArrayCalls == 3

\* remove_outliers that works on the array it was given, without np.copy.
remove_outliers_arrays_in_place(heap, original_cube, threshold) ==
    [heap |-> [heap EXCEPT ![original_cube] =
                   Append(@, RemoveOutliersOp(threshold))],
     result |-> original_cube]

\* remove_outliers: cube = np.copy(original_cube) is a new array, the
\* flagged samples are written into it and it is returned.
remove_outliers_arrays(heap, original_cube, threshold) ==
    LET copied == Append(heap, heap[original_cube])
        c == Len(copied)
    IN  [heap |-> [copied EXCEPT ![c] = Append(@, RemoveOutliersOp(threshold))],
         result |-> c]

\* box_filter_cube: mu is sliced out of the new array convolve1d returns;
\* smoothed_spectrum, the only array written, is np.empty of the function.
box_filter_cube_arrays(heap, raw_cube, window_size) ==
    [heap |-> Append(heap, Append(heap[raw_cube], BoxFilterOp(window_size))),
     result |-> Len(heap) + 1]

\* double_line: continuum2_removed = cube / continuum2 is a new array.
double_line_arrays(heap, arr) ==
    [heap |-> Append(heap, Append(heap[arr], DoubleLineOp)),
     result |-> Len(heap) + 1]

\* self.cube = <stage function>(self.cube, ...) for one entry of the cube's
\* history: the heap and the array self.cube is bound to afterwards.
ApplyOp(op, mem) ==
    LET r == IF op.op = "remove_outliers"
             THEN remove_outliers_arrays(mem.heap, mem.cube, op.arg)
             ELSE IF op.op = "box_filter_cube"
             THEN box_filter_cube_arrays(mem.heap, mem.cube, op.arg)
             ELSE double_line_arrays(mem.heap, mem.cube)
    IN  [heap |-> r.heap, cube |-> r.result]

RECURSIVE ApplyOps(_, _)
ApplyOps(ops, mem) ==
    IF ops = <<>> THEN mem
    ELSE ApplyOps(Tail(ops), ApplyOp(Head(ops), mem))

\* The stage functions a method call ran: what it appended to the history.
OpsOf(s) == SubSeq(s.cube, Len(cube) + 1, Len(s.cube))

\* Spec3D(spec_arr, ...): self.cube = spec_arr, the caller's array.
\* args: the heap, the array self.cube is bound to, the caller's array as
\* it was passed, and the features returned so far with the contents of
\* their cube when they were built.
ArraysInit ==
    /\ Spec3DInit
    /\ args = [heap |-> << <<>> >>, cube |-> 1, spec_arr |-> <<>>,
               features |-> {}]
    /\ ret = NoCall

\* A stage method call s (the instance as the orchestrator leaves it) run
\* on the arrays.
StageCallOnArrays(s) ==
    /\ flag' = s.flag
    /\ cube' = s.cube
    /\ LET mem == ApplyOps(OpsOf(s), [heap |-> args.heap, cube |-> args.cube])
       IN  args' = [args EXCEPT !.heap = mem.heap, !.cube = mem.cube]
    /\ feature' = <<>>
    /\ ncalls' = ncalls + 1
    /\ UNCHANGED <<wvl_unit, ret>>

OutlierRemovalOnArrays ==
    /\ ncalls < MaxArrayCalls
    /\ \E t \in Thresholds :
          /\ StageCallOnArrays(outlier_removal(Self, t))
          /\ call' = CallRecord("outlier_removal", "", "returned")

NoiseReductionOnArrays ==
    /\ ncalls < MaxArrayCalls
    /\ \E method \in FilterMethods, w \in FilterWidths :
          /\ StageCallOnArrays(noise_reduction(Self, method, w))
          /\ call' = CallRecord("noise_reduction", method, "returned")

ContinuumRemovalOnArrays ==
    /\ ncalls < MaxArrayCalls
    /\ \E method \in ContinuumMethods :
          /\ StageCallOnArrays(continuum_removal(Self, method))
          /\ call' = CallRecord("continuum_removal", method, "returned")

\* fit_absorption: AbsorptionFeature3D keeps self.spec = contrem_spectrum,
\* the very array self.cube is bound to.
FitAbsorptionOnArrays ==
    /\ ncalls < MaxArrayCalls
    /\ \E unit \in WvlUnit :
          LET r == fit_absorption(Self, wvl_unit, unit)
          IN  /\ call' = CallRecord("fit_absorption", unit, r.outcome)
              /\ feature' = r.feature
              /\ args' = IF r.outcome = "returned"
                         THEN [args EXCEPT !.features = @ \cup
                                  {[spec |-> args.cube,
                                    contents |-> args.heap[args.cube]]}]
                         ELSE args
    /\ ncalls' = ncalls + 1
    /\ UNCHANGED <<flag, cube, wvl_unit, ret>>

ArraysNext ==
    \/ OutlierRemovalOnArrays
    \/ NoiseReductionOnArrays
    \/ ContinuumRemovalOnArrays
    \/ FitAbsorptionOnArrays

SpecArrays == ArraysInit /\ [][ArraysNext]_vars

(* Claims about the arrays.                                                *)

-----------------------------------------------------------------------------
(* The fitters on a cube of two pixels: polyfit_cube and polyfit_single of *)
(* reflspeckit, fit_linear_cube of spectralcubekit, and r_squared.         *)

MaxFitY == 1

\* x vectors shared by the pixels: at least two distinct values each.
XShared ==
    {<<R(0), R(1), R(2)>>, <<R(0), R(0), R(1)>>, <<R(1), R(2), R(4)>>}

\* x vectors of one pixel: also one with all values equal.
XPixel == XShared \cup {<<R(1), R(1), R(1)>>}

\* xdata: 1-D and shared, or 3-D with one x vector per pixel.
XData ==
    {[ndim |-> 1, x |-> v] : v \in XShared}
        \cup {[ndim |-> 3, x |-> <<a, b>>] : a, b \in XPixel}

\* The number of samples of one pixel.
SamplesOf(xdata) == IF xdata.ndim = 1 THEN Len(xdata.x) ELSE Len(xdata.x[1])

\* np.sum(v ** 2) along the spectral axis
SumSq(v) == RSum([i \in 1..Len(v) |-> RSq(v[i])])

\* np.sum((y - np.mean(y)) ** 2) of one spectrum
SumSqDev(y) ==
    LET mean == RDiv(RSum(y), R(Len(y)))
    IN  SumSq([i \in 1..Len(y) |-> RSub(y[i], mean)])

\* The determinant of X^T X of a degree-1 fit.
Det1(x) ==
    RSub(RMul(R(Len(x)), SumSq(x)), RSq(RSum(x)))

\* polyfit_cube on every pixel of the cube.
PolyfitCubePixels(spectral_cube, wvl, order) ==
    [p \in 1..Len(spectral_cube) |-> polyfit_cube(spectral_cube[p], wvl, order)]

\* CubeFitResult.r_squared: ss_res is summed along the spectral axis,
\* ss_tot is np.sum without an axis, over the samples of all pixels.
CubeFitResult_r_squared(fit) ==
    LET ss_tot == RSum([p \in 1..Len(fit) |-> SumSqDev(fit[p].ydata)])
    IN  [p \in 1..Len(fit) |->
            RSub(R(1), RDiv(SumSq(fit[p].res), ss_tot))]

\* FitResult.r_squared of spectralcubekit: the same computation.
FitResult_r_squared(fit) ==
    LET ss_tot == RSum([p \in 1..Len(fit) |-> SumSqDev(fit[p].ydata)])
    IN  [p \in 1..Len(fit) |->
            RSub(R(1), RDiv(SumSq(fit[p].res), ss_tot))]

\* SingleFitResult.r_squared
SingleFitResult_r_squared(fit) ==
    RSub(R(1), RDiv(SumSq(fit.res), SumSqDev(fit.ydata)))

\* One pixel of _fit_cube_sharedX and _fit_cube_varX: G has the columns
\* (x, 1), so beta = (slope, intercept); res = model - d.
FitPixel(x, d) ==
    LET c == NormalEquations1(x, d)
        model == [i \in 1..Len(x) |-> RAdd(RMul(c.slope, x[i]), c.intercept)]
    IN  [xdata |-> x, ydata |-> d, model |-> model,
         beta |-> <<c.slope, c.intercept>>,
         res |-> [i \in 1..Len(x) |-> RSub(model[i], d[i])]]

\* _fit_cube_sharedX: np.linalg.inv(G.T @ G) raises LinAlgError on a
\* singular matrix.
fit_cube_sharedX(x, d) ==
    IF Det1(x) = R(0)
    THEN [outcome |-> "LinAlgError"]
    ELSE [outcome |-> "returned",
          fit |-> [p \in 1..Len(d) |-> FitPixel(x, d[p])]]

\* _fit_cube_varX: np.linalg.inv(GtG) inverts the whole stack and raises
\* LinAlgError when the matrix of any pixel is singular.
fit_cube_varX(x, d) ==
    IF \E p \in 1..Len(d) : Det1(x[p]) = R(0)
    THEN [outcome |-> "LinAlgError"]
    ELSE [outcome |-> "returned",
          fit |-> [p \in 1..Len(d) |-> FitPixel(x[p], d[p])]]

fit_linear_cube(arr, xdata) ==
    IF xdata.ndim = 1 THEN fit_cube_sharedX(xdata.x, arr)
    ELSE IF xdata.ndim = 3 THEN fit_cube_varX(xdata.x, arr)
    ELSE [outcome |-> "ValueError"]

FitInit ==
    /\ Spec3DInit
    /\ \E xdata \in XData :
       \E y1, y2 \in [1..SamplesOf(xdata) -> {R(v) : v \in 0..MaxFitY}] :
            args = [cube |-> <<y1, y2>>, xdata |-> xdata]
    /\ ret = NoCall

\* polyfit_cube(cube, x, 1), then r_squared() of the result.
PolyfitCube ==
    /\ ret = NoCall
    /\ args.xdata.ndim = 1
    /\ LET fit == PolyfitCubePixels(args.cube, args.xdata.x, 1)
       IN  ret' = [fn |-> "polyfit_cube",
                   val |-> [outcome |-> "returned", fit |-> fit,
                            r_squared |-> CubeFitResult_r_squared(fit)]]
    /\ UNCHANGED <<orchVars, args>>

\* polyfit_single(cube[p], x, 1) on one pixel, then r_squared().
PolyfitSingle ==
    /\ ret = NoCall
    /\ args.xdata.ndim = 1
    /\ \E p \in 1..Len(args.cube) :
          LET fit == polyfit_single(args.cube[p], args.xdata.x, 1)
          IN  ret' = [fn |-> "polyfit_single", pixel |-> p,
                      val |-> [outcome |-> "returned", fit |-> fit,
                               r_squared |-> SingleFitResult_r_squared(fit)]]
    /\ UNCHANGED <<orchVars, args>>

\* fit_linear_cube(cube, xdata), then r_squared() of the result if there
\* is one.
FitLinearCube ==
    /\ ret = NoCall
    /\ LET r == fit_linear_cube(args.cube, args.xdata)
       IN  ret' = [fn |-> "fit_linear_cube",
                   val |-> IF r.outcome = "returned"
                           THEN [outcome |-> "returned", fit |-> r.fit,
                                 r_squared |-> FitResult_r_squared(r.fit)]
                           ELSE r]
    /\ UNCHANGED <<orchVars, args>>

FitNext ==
    \/ PolyfitCube
    \/ PolyfitSingle
    \/ FitLinearCube

SpecFit == FitInit /\ [][FitNext]_vars

(* Claims about the fitters.                                               *)

\* C12: the coefficient vector polyfit_cube returns for a pixel equals,
\* position by position, the one polyfit_single returns for that pixel's
\* spectrum with the same x and order.
C12_BatchEqualsSingle ==
    ret.fn = "polyfit_cube" =>
        \A p \in 1..Len(args.cube) :
            ret.val.fit[p].beta
                = polyfit_single(args.cube[p], args.xdata.x, 1).beta

\* The fits of one call, as a sequence: one per pixel, or the single one.
FitsOf(r) == IF r.fn = "polyfit_single" THEN <<r.val.fit>> ELSE r.val.fit

\* C13: every fitter stores residual = model - data at each sample.
C13_ResidualIsModelMinusData ==
    (ret # NoCall /\ ret.val.outcome = "returned") =>
        \A q \in 1..Len(FitsOf(ret)) :
            LET f == FitsOf(ret)[q]
            IN  \A i \in 1..Len(f.ydata) :
                    f.res[i] = RSub(f.model[i], f.ydata[i])

\* C14: r_squared of a cube fit is, for each pixel, 1 minus that pixel's
\* sum of squared residuals over that pixel's sum of squared deviations
\* from its own spectral mean.
C14_RSquaredPerPixel ==
    (ret.fn \in {"polyfit_cube", "fit_linear_cube"}
        /\ ret.val.outcome = "returned") =>
        \A p \in 1..Len(args.cube) :
            ret.val.r_squared[p]
                = RSub(R(1), RDiv(SumSq(ret.val.fit[p].res),
                                  SumSqDev(args.cube[p])))

\* C15: with per-pixel x data of which one pixel's is singular (all x
\* equal), fit_linear_cube returns, that pixel's coefficients are NaN and
\* the other pixel's coefficients are those of its own fit.
C15_SingularPixelDoesNotAbort ==
    (ret.fn = "fit_linear_cube" /\ args.xdata.ndim = 3
        /\ \E p \in 1..2 : Det1(args.xdata.x[p]) = R(0)) =>
        /\ ret.val.outcome = "returned"
        /\ \A p \in 1..2 :
              IF Det1(args.xdata.x[p]) = R(0)
              THEN \A k \in 1..2 : IsNaN(ret.val.fit[p].beta[k])
              ELSE ret.val.fit[p].beta
                       = FitPixel(args.xdata.x[p], args.cube[p]).beta

\* The x vector of pixel p in a call.
XOf(a, p) == IF a.xdata.ndim = 1 THEN a.xdata.x ELSE a.xdata.x[p]

\* The line through the first two samples with different x, and whether
\* all samples of the pixel lie on it: the data is y = m * x + b exactly.
LineThrough(x, y) ==
    LET j == CHOOSE k \in 2..Len(x) :
                 x[k] # x[1] /\ \A h \in 2..(k - 1) : x[h] = x[1]
    IN  SegmentLine(x[1], y[1], x[j], y[j])

ExactLine(x, y) ==
    /\ \E k \in 2..Len(x) : x[k] # x[1]
    /\ \A i \in 1..Len(x) : y[i] = EvalLine(LineThrough(x, y), x[i])

\* C16: fitted to data that is exactly y = m * x + b, with at least two
\* distinct x, every fitter returns beta = [b, m], residuals zero at every
\* sample and r squared 1.
C16_LineRoundTrip ==
    (ret # NoCall /\ ret.val.outcome = "returned") =>
        \A q \in 1..Len(FitsOf(ret)) :
            LET p == IF ret.fn = "polyfit_single" THEN ret.pixel ELSE q
                f == FitsOf(ret)[q]
                x == XOf(args, p)
                r2 == IF ret.fn = "polyfit_single" THEN ret.val.r_squared
                      ELSE ret.val.r_squared[q]
            IN  ExactLine(x, args.cube[p]) =>
                    /\ f.beta = <<LineThrough(x, args.cube[p]).b,
                                  LineThrough(x, args.cube[p]).m>>
                    /\ \A i \in 1..Len(x) : f.res[i] = R(0)
                    /\ r2 = R(1)

-----------------------------------------------------------------------------
(* Claims about the orchestrator.                                          *)

\* C1: over any sequence of stage calls the flag never moves to an earlier
\* stage: after every call it is equal to or later than before the call.
C1_FlagNeverRegresses == FlagValue(flag) >= FlagValue(call.pre_flag)

\* C2: a stage call is a no-op when the requested stage or a later one is
\* already satisfied: outlier_removal at OUTLIERS_REMOVED, FILTERED or
\* CONTINUUM_REMOVED and noise_reduction at CONTINUUM_REMOVED leave the cube
\* and the flag as they were.
C2_SatisfiedStageIsNoOp ==
    (\/ /\ call.name = "outlier_removal"
        /\ call.pre_flag \in {"OUTLIERS_REMOVED", "FILTERED", "CONTINUUM_REMOVED"}
     \/ /\ call.name = "noise_reduction"
        /\ call.pre_flag = "CONTINUUM_REMOVED")
    => (flag = call.pre_flag /\ cube = call.pre_cube)

\* C3: fit_absorption before CONTINUUM_REMOVED raises, runs no earlier stage
\* and leaves flag and cube unchanged; a feature is built only at
\* CONTINUUM_REMOVED.
C3_FitAbsorptionPrecondition ==
    call.name = "fit_absorption" =>
        /\ flag = call.pre_flag
        /\ cube = call.pre_cube
        /\ call.pre_flag # "CONTINUUM_REMOVED" =>
               (call.outcome = "ValueError" /\ feature = <<>>)
        /\ feature # <<>> =>
               (call.pre_flag = "CONTINUUM_REMOVED" /\ feature[1].spec = cube)

C3_Witness ==
    /\ call.name = "fit_absorption"
    /\ call.pre_flag = "FILTERED"
    /\ call.outcome = "ValueError"

\* The indices of the history at which a stage function was applied.
Applied(op) == {i \in 1..Len(cube) : cube[i].op = op}

Last(S) == CHOOSE i \in S : \A j \in S : j <= i

\* C4: with the recognised methods only, CONTINUUM_REMOVED implies a box
\* filter before the most recent continuum removal and an outlier removal
\* before that box filter; FILTERED implies an outlier removal before the
\* most recent box filter; continuum_removal at RAW runs outlier removal,
\* box filter and double_line in that order.
C4_StagesInOrder ==
    /\ flag = "CONTINUUM_REMOVED" =>
          /\ Applied("double_line") # {}
          /\ \E b \in Applied("box_filter_cube") :
                /\ b < Last(Applied("double_line"))
                /\ \E o \in Applied("remove_outliers") : o < b
    /\ flag = "FILTERED" =>
          /\ Applied("box_filter_cube") # {}
          /\ \E o \in Applied("remove_outliers") :
                o < Last(Applied("box_filter_cube"))
    /\ (call.name = "continuum_removal" /\ call.pre_flag = "RAW") =>
          cube = call.pre_cube \o <<RemoveOutliersOp(DefaultSigma),
                                    BoxFilterOp(DefaultFilterWidth),
                                    DoubleLineOp>>

C4_Witness ==
    /\ call.name = "continuum_removal"
    /\ call.pre_flag = "RAW"
    /\ flag = "CONTINUUM_REMOVED"

\* C26: for every method argument, FILTERED means the cube was replaced by
\* a box-filter output since the last outlier removal and CONTINUUM_REMOVED
\* means it was replaced by a double_line output since the last box filter;
\* a call with a method the dispatcher does not recognise does not move the
\* flag to the stage.
C26_FlagReflectsProcessing ==
    /\ flag = "FILTERED" =>
          /\ Applied("box_filter_cube") # {}
          /\ \A o \in Applied("remove_outliers") :
                o < Last(Applied("box_filter_cube"))
    /\ flag = "CONTINUUM_REMOVED" =>
          /\ Applied("double_line") # {}
          /\ \A b \in Applied("box_filter_cube") :
                b < Last(Applied("double_line"))
    /\ (call.name = "noise_reduction" /\ call.method # "box_filter"
            /\ flag = "FILTERED") => call.pre_flag = "FILTERED"
    /\ (call.name = "continuum_removal" /\ call.method # "double_line"
            /\ flag = "CONTINUUM_REMOVED") => call.pre_flag = "CONTINUUM_REMOVED"

\* C5: repeating a satisfied stage does nothing: noise_reduction at FILTERED
\* and continuum_removal at CONTINUUM_REMOVED leave the cube and the flag
\* unchanged, for any filter width or method.
C5_RepeatIsNoOp ==
    (\/ call.name = "noise_reduction" /\ call.pre_flag = "FILTERED"
     \/ call.name = "continuum_removal" /\ call.pre_flag = "CONTINUUM_REMOVED")
    => (flag = call.pre_flag /\ cube = call.pre_cube)

C5_Witness ==
    /\ call.name = "noise_reduction"
    /\ call.pre_flag = "FILTERED"
    /\ call.method = "median_filter"
    /\ Len(cube) > 0

=============================================================================
